---------------------------- MODULE Spec2Model ----------------------------
(***************************************************************************)
(* Model of the keyword-count Analyzer (src/analyzer.js).                  *)
(*                                                                         *)
(* Strings are sequences of one-character strings, so that split('\n'),    *)
(* toUpperCase(), path concatenation, JSON.stringify(.., null, 4) and      *)
(* JSON.parse are computed character by character.  JavaScript objects     *)
(* are ordered maps: a sequence of keys (insertion order) and a value for  *)
(* each key.                                                               *)
(***************************************************************************)
EXTENDS Integers, Sequences, FiniteSets, TLC

(***************************************************************************)
(* Bounds of the model.                                                    *)
(***************************************************************************)
\* chunks the line filter may emit during one scan
MaxChunks == 2
\* analyze() invocations on one Analyzer instance
MaxRuns == 2

(***************************************************************************)
(* JavaScript values.                                                      *)
(***************************************************************************)
\* the value `undefined` where a string (key) is expected: no string of
\* one-character elements equals it
Undefined == <<"undefined">>
\* the number NaN (undefined + 1); NaN + 1 is NaN again
NaN == -1
\* the value null (what JSON.parse yields for the text null)
Null == -2

Range(s) == {s[i] : i \in DOMAIN s}

\* an empty object literal {}
EmptyObj == [keys |-> <<>>, val |-> <<>>]

Has(o, k) == \E i \in DOMAIN o.keys : o.keys[i] = k

IndexOf(o, k) == CHOOSE i \in DOMAIN o.keys : o.keys[i] = k

\* o[k] of an own key
Get(o, k) == o.val[IndexOf(o, k)]

\* o[k] = v : replaces the value in place, or appends a new key
Put(o, k, v) ==
    IF Has(o, k)
    THEN [o EXCEPT !.val[IndexOf(o, k)] = v]
    ELSE [keys |-> Append(o.keys, k), val |-> Append(o.val, v)]

\* Object.keys(o) as a set
KeySet(o) == Range(o.keys)

\* deep equality of two objects whatever the order of their keys
RECURSIVE SameObj(_, _, _)
SameObj(a, b, depth) ==
    /\ KeySet(a) = KeySet(b)
    /\ \A k \in KeySet(a) :
          IF depth = 0 THEN Get(a, k) = Get(b, k)
          ELSE SameObj(Get(a, k), Get(b, k), depth - 1)

(***************************************************************************)
(* Strings.                                                                *)
(***************************************************************************)
NL == "\n"

Lower == <<"a","b","c","d","e","f","g","h","i","j","k","l","m",
           "n","o","p","q","r","s","t","u","v","w","x","y","z">>
Upper == <<"A","B","C","D","E","F","G","H","I","J","K","L","M",
           "N","O","P","Q","R","S","T","U","V","W","X","Y","Z">>

UpperChar(c) ==
    IF \E i \in DOMAIN Lower : Lower[i] = c
    THEN Upper[CHOOSE i \in DOMAIN Lower : Lower[i] = c]
    ELSE c

\* String.prototype.toUpperCase
toUpperCase(s) == [i \in DOMAIN s |-> UpperChar(s[i])]

\* String.prototype.split(sep) for a one-character separator
RECURSIVE splitFrom(_, _, _, _)
splitFrom(s, sep, i, cur) ==
    IF i > Len(s) THEN <<cur>>
    ELSE IF s[i] = sep THEN <<cur>> \o splitFrom(s, sep, i + 1, <<>>)
    ELSE splitFrom(s, sep, i + 1, Append(cur, s[i]))

split(s, sep) == splitFrom(s, sep, 1, <<>>)

\* Array.prototype.join(sep)
RECURSIVE join(_, _)
join(arr, sep) ==
    IF arr = <<>> THEN <<>>
    ELSE IF Len(arr) = 1 THEN arr[1]
    ELSE arr[1] \o sep \o join(Tail(arr), sep)

\* position of the last occurrence of character c in s, 0 if none
LastIndexOf(s, c) ==
    IF \E i \in DOMAIN s : s[i] = c
    THEN CHOOSE i \in DOMAIN s : s[i] = c /\ \A j \in DOMAIN s : s[j] = c => j <= i
    ELSE 0

\* parsePath(file).name : the base name without its extension
parsePathName(file) ==
    LET base == SubSeq(file, LastIndexOf(file, "/") + 1, Len(file))
        dot  == LastIndexOf(base, ".")
    IN  IF dot > 1 THEN SubSeq(base, 1, dot - 1) ELSE base

(***************************************************************************)
(* getKey and the mapper transform.                                        *)
(***************************************************************************)
\* a search that uppercases the keys only, not the word
getKeyUpperKeysOnly(word, map, ic) ==
    IF ~ic THEN word
    ELSE LET hits == {i \in DOMAIN map.keys : toUpperCase(map.keys[i]) = word}
         IN  IF hits = {} THEN Undefined
             ELSE map.keys[CHOOSE i \in hits : \A j \in hits : i <= j]

\* Analyzer.prototype.getKey
getKey(word, map, ic) ==
    IF ~ic THEN word
    ELSE LET hits == {i \in DOMAIN map.keys : toUpperCase(map.keys[i]) = toUpperCase(word)}
         IN  IF hits = {} THEN Undefined
             ELSE map.keys[CHOOSE i \in hits : \A j \in hits : i <= j]

\* the value of  x + 1  for a count x, for NaN and for a missing entry
PlusOne(map, key) ==
    IF ~Has(map, key) THEN NaN
    ELSE IF Get(map, key) = NaN THEN NaN
    ELSE Get(map, key) + 1

\* self.keywords.forEach(function(word) { map[word] = 0; })
RECURSIVE zeroMap(_, _)
zeroMap(kws, map) ==
    IF kws = <<>> THEN map
    ELSE zeroMap(Tail(kws), Put(map, Head(kws), 0))

\* split.forEach(function(word) { ... map[key] = map[key] + 1 ... })
RECURSIVE countWords(_, _, _)
countWords(words, map, ic) ==
    IF words = <<>> THEN map
    ELSE LET word == Head(words)
             key  == getKey(word, map, ic)
         IN  IF word # <<>> /\ key # Undefined /\ key # <<>>
             THEN countWords(Tail(words), Put(map, key, PlusOne(map, key)), ic)
             ELSE countWords(Tail(words), map, ic)

\* the frequency map mapper._transform builds from one chunk
chunkMap(data, kws, ic) == countWords(split(data, NL), zeroMap(kws, EmptyObj), ic)

\* a mapper that starts a new store with every chunk
mapperTransformFresh(store, data, file, kws, ic) ==
    Put(EmptyObj, parsePathName(file), chunkMap(data, kws, ic))

\* mapper._transform: the results store after the chunk `data` of `file`
mapperTransform(store, data, file, kws, ic) ==
    Put(store, parsePathName(file), chunkMap(data, kws, ic))

(***************************************************************************)
(* JSON.stringify(data, null, 4) and JSON.parse, on the shape of a results *)
(* store: an object of objects of numbers.                                 *)
(***************************************************************************)
DigitChars == <<"0","1","2","3","4","5","6","7","8","9">>

RECURSIVE Digits(_)
Digits(n) ==
    IF n < 10 THEN <<DigitChars[n + 1]>>
    ELSE Digits(n \div 10) \o <<DigitChars[(n % 10) + 1]>>

\* a number: NaN is serialized as null
StringifyNumber(v) ==
    IF v = NaN \/ v = Null THEN <<"n","u","l","l">> ELSE Digits(v)

Quote(k) == <<"\"">> \o k \o <<"\"">>

RECURSIVE Indent(_)
Indent(level) == IF level = 0 THEN <<>> ELSE <<" "," "," "," ">> \o Indent(level - 1)

RECURSIVE StringifyObj(_, _, _)
RECURSIVE StringifyMembers(_, _, _, _)
StringifyMembers(o, i, level, depth) ==
    LET v    == o.val[i]
        text == Indent(level) \o Quote(o.keys[i]) \o <<":", " ">> \o
                (IF depth = 0 THEN StringifyNumber(v)
                 ELSE StringifyObj(v, level, depth - 1))
    IN  IF i = Len(o.keys) THEN text \o <<NL>>
        ELSE text \o <<",", NL>> \o StringifyMembers(o, i + 1, level, depth)

StringifyObj(o, level, depth) ==
    IF o.keys = <<>> THEN <<"{", "}">>
    ELSE <<"{", NL>> \o StringifyMembers(o, 1, level + 1, depth) \o
         Indent(level) \o <<"}">>

\* stringifier._transform: JSON.stringify(data, null, 4) of a results store
stringify(store) == StringifyObj(store, 0, 1)

ParseFail == [ok |-> FALSE, v |-> EmptyObj, i |-> 0]

IsWs(c) == c \in {" ", NL, "\t", "\r"}

RECURSIVE SkipWs(_, _)
SkipWs(t, i) == IF i <= Len(t) /\ IsWs(t[i]) THEN SkipWs(t, i + 1) ELSE i

IsDigit(c) == \E d \in DOMAIN DigitChars : DigitChars[d] = c

DigitVal(c) == (CHOOSE d \in DOMAIN DigitChars : DigitChars[d] = c) - 1

RECURSIVE ParseDigits(_, _, _)
ParseDigits(t, i, acc) ==
    IF i <= Len(t) /\ IsDigit(t[i]) THEN ParseDigits(t, i + 1, acc * 10 + DigitVal(t[i]))
    ELSE [ok |-> TRUE, v |-> acc, i |-> i]

\* a number or null
ParseNumber(t, i) ==
    IF i <= Len(t) /\ IsDigit(t[i]) THEN ParseDigits(t, i, 0)
    ELSE IF i + 3 <= Len(t) /\ SubSeq(t, i, i + 3) = <<"n","u","l","l">>
         THEN [ok |-> TRUE, v |-> Null, i |-> i + 4]
    ELSE [ok |-> FALSE, v |-> 0, i |-> 0]

\* a quoted string starting at t[i]
ParseString(t, i) ==
    IF i <= Len(t) /\ t[i] = "\"" /\ \E j \in (i + 1)..Len(t) : t[j] = "\""
    THEN LET j == CHOOSE j \in (i + 1)..Len(t) :
                     t[j] = "\"" /\ \A k \in (i + 1)..(j - 1) : t[k] # "\""
         IN  [ok |-> TRUE, v |-> SubSeq(t, i + 1, j - 1), i |-> j + 1]
    ELSE [ok |-> FALSE, v |-> <<>>, i |-> 0]

RECURSIVE ParseObj(_, _, _)
RECURSIVE ParseMembers(_, _, _, _)
\* members of an object, t[i] being the first character of a key
ParseMembers(t, i, depth, acc) ==
    LET k == ParseString(t, i) IN
    IF ~k.ok THEN ParseFail ELSE
    LET c == SkipWs(t, k.i) IN
    IF ~(c <= Len(t) /\ t[c] = ":") THEN ParseFail ELSE
    LET v == IF depth = 0 THEN ParseNumber(t, SkipWs(t, c + 1))
             ELSE ParseObj(t, SkipWs(t, c + 1), depth - 1) IN
    IF ~v.ok THEN ParseFail ELSE
    LET n   == SkipWs(t, v.i)
        obj == Put(acc, k.v, v.v) IN
    IF n > Len(t) THEN ParseFail
    ELSE IF t[n] = "}" THEN [ok |-> TRUE, v |-> obj, i |-> n + 1]
    ELSE IF t[n] = "," THEN ParseMembers(t, SkipWs(t, n + 1), depth, obj)
    ELSE ParseFail

ParseObj(t, i, depth) ==
    IF ~(i <= Len(t) /\ t[i] = "{") THEN ParseFail
    ELSE LET n == SkipWs(t, i + 1) IN
         IF n > Len(t) THEN ParseFail
         ELSE IF t[n] = "}" THEN [ok |-> TRUE, v |-> EmptyObj, i |-> n + 1]
         ELSE ParseMembers(t, n, depth, EmptyObj)

\* JSON.parse of a text: ok is FALSE when the text is no JSON document of
\* the shape of a results store
JSONparse(t) ==
    LET r == ParseObj(t, SkipWs(t, 1), 1)
    IN  IF r.ok /\ SkipWs(t, r.i) > Len(t) THEN r ELSE ParseFail

(***************************************************************************)
(* The environment: the file system the analyzer runs on and what the      *)
(* line filter (grep1) may emit.                                           *)
(***************************************************************************)
foo == <<"f","o","o">>
FOO == <<"F","O","O">>
bar == <<"b","a","r">>

\* a directory with two files, a directory that cannot be listed, a
\* symbolic link and a path that does not exist
DirD    == <<"d">>
DirU    == <<"u">>
LinkL   == <<"l">>
Missing == <<"x">>
EntryA  == <<"a",".","t">>
EntryB  == <<"b",".","t">>
FileA   == DirD \o <<"/">> \o EntryA
FileB   == DirD \o <<"/">> \o EntryB

\* a directory whose two files have the same name up to the extension, and
\* a directory that holds a file and a subdirectory with a file of its own
DirS     == <<"s">>
DirN     == <<"n">>
EntryM   == <<"a",".","m">>
EntrySub == <<"s","u","b">>
FileSA   == DirS \o <<"/">> \o EntryA
FileSM   == DirS \o <<"/">> \o EntryM
FileNA   == DirN \o <<"/">> \o EntryA
SubDir   == DirN \o <<"/">> \o EntrySub
FileNSB  == SubDir \o <<"/">> \o EntryB

Targets == {DirD, DirU, LinkL, Missing, FileA, FileB}

\* fs.stat(path), which follows a symbolic link to the file it names
statFollowingLinks(path) ==
    IF path \in {FileA, FileB, FileSA, FileSM, FileNA, FileNSB, LinkL} THEN "file"
    ELSE IF path \in {DirD, DirU, DirS, DirN, SubDir} THEN "dir"
    ELSE "ENOENT"

\* fs.lstat(path): isFile(), isDirectory(), neither, or an error
lstat(path) ==
    IF path \in {FileA, FileB, FileSA, FileSM, FileNA, FileNSB} THEN "file"
    ELSE IF path \in {DirD, DirU, DirS, DirN, SubDir} THEN "dir"
    ELSE IF path = LinkL THEN "other"
    ELSE "ENOENT"

\* fs.readdir(path)
readdir(path) ==
    IF path = DirD THEN [err |-> FALSE, files |-> <<EntryA, EntryB>>]
    ELSE IF path = DirS THEN [err |-> FALSE, files |-> <<EntryA, EntryM>>]
    ELSE IF path = DirN THEN [err |-> FALSE, files |-> <<EntryA, EntrySub>>]
    ELSE IF path = SubDir THEN [err |-> FALSE, files |-> <<EntryB>>]
    ELSE [err |-> TRUE, files |-> <<>>]

\* values a keyword file can hold under a key: an array of strings, or
\* something that is no array (here: undefined, the key is missing)
Arr(items) == [tag |-> "array", items |-> items]
UndefinedV == [tag |-> "undefined", items |-> <<>>]
isArray(v) == v.tag = "array"

\* keyword files: their text is empty, is no JSON, or is the JSON text of
\* an object
KeywordFiles == {"k.json", "o.json", "e.txt", "bad.json", "nofile"}

readFile(path) ==
    CASE path = "k.json"   -> [err |-> FALSE, kind |-> "object",
                               obj |-> [keys |-> <<"keywords", "words">>,
                                        val  |-> <<Arr(<<foo, bar>>), Arr(<<FOO>>)>>]]
      [] path = "o.json"   -> [err |-> FALSE, kind |-> "object",
                               obj |-> [keys |-> <<"other">>,
                                        val  |-> <<Arr(<<bar>>)>>]]
      [] path = "e.txt"    -> [err |-> FALSE, kind |-> "empty", obj |-> EmptyObj]
      [] path = "bad.json" -> [err |-> FALSE, kind |-> "malformed", obj |-> EmptyObj]
      [] OTHER             -> [err |-> TRUE, kind |-> "empty", obj |-> EmptyObj]

\* a lookup that ignores the configured key name
parseKeywordsDefaultKey(data, key) ==
    IF data.kind # "object" THEN [err |-> TRUE, v |-> UndefinedV]
    ELSE [err |-> FALSE, v |-> IF Has(data.obj, "keywords")
                               THEN Get(data.obj, "keywords") ELSE UndefinedV]

\* JSON.parse(data)[keyName] of a keyword file's text
parseKeywords(data, key) ==
    IF data.kind # "object" THEN [err |-> TRUE, v |-> UndefinedV]
    ELSE [err |-> FALSE, v |-> IF Has(data.obj, key) THEN Get(data.obj, key) ELSE UndefinedV]

\* opts.keywordsList: absent, an array literal, or the path of a keyword file
NoList       == [kind |-> "none", arr |-> <<>>, path |-> ""]
ListOf(a)    == [kind |-> "array", arr |-> a, path |-> ""]
ListFile(f)  == [kind |-> "path", arr |-> <<>>, path |-> f]

KeywordSources ==
    {NoList, ListOf(<<foo, bar>>)} \cup {ListFile(f) : f \in KeywordFiles}

\* the chunks the line filter's stream may deliver: several lines at once,
\* a line in another case, a chunk that ends in the middle of the line
\* "bar" and the chunk with the rest of that line
Chunks ==
    { foo \o <<NL>> \o bar \o <<NL>> \o foo \o <<NL>>,
      FOO \o <<NL>>,
      foo \o <<NL, "b", "a">>,
      <<"r", NL>> }

DEFAULT_KEY_NAME == "keywords"

\* opts.keyName as the caller may give it ("" : not given)
KeyNames == {"", "words"}

(***************************************************************************)
(* State.                                                                  *)
(***************************************************************************)
VARIABLES
    target,        \* this.target
    keywordsList,  \* this.keywordsList
    optKeyName,    \* opts.keyName as given to the constructor ("" : not given)
    keyName,       \* this.keyName
    ignoreCase,    \* this.ignoreCase
    keywords,      \* this.keywords
    resultsMap,    \* this.resultsMap
    analyzeP,      \* the promise analyze() returned: none, pending, resolved, rejected
    phase,         \* where analyze() is: idle, setup, grepFile, readdir, grepDir, done
    lstatP,        \* fs.lstatAsync(target): none, pending, ok, err
    kwP,           \* getKeywords(): [st: none/pending/ok/err, v: the value]
    scans,         \* the grepFile calls of this run (grepped, or the single one)
    outExists,     \* the output file exists
    outFile,       \* the content of the output file
    outOK,         \* the output path can be created and opened
    crashed,       \* an 'error' event without a listener ended the process
    reads,         \* number of fs.readFile calls so far
    run,           \* number of analyze() calls so far
    lastRun        \* history: what the previous analyze() on this instance
                   \* was given and what it left in the results store

vars == <<target, keywordsList, optKeyName, keyName, ignoreCase, keywords, resultsMap,
          analyzeP, phase, lstatP, kwP, scans, outExists, outFile, outOK,
          crashed, reads, run, lastRun>>

config == <<keywordsList, optKeyName, keyName, ignoreCase, outOK>>

\* this.keyName = opts.keyName || DEFAULT_KEY_NAME
keyNameOf(k) == IF k = "" THEN DEFAULT_KEY_NAME ELSE k

\* the state of one grepFile(file) call
NewScan(file) ==
    [file    |-> file,
     pc      |-> "mkdirp",   \* mkdirp, open, then, piped, threw
     P       |-> "pending",  \* the promise grepFile returned
     args    |-> <<>>,       \* the argument array grep() was called with
     search  |-> "none",     \* the filter's stream: none, running, end, error
     emitted |-> <<>>,       \* the chunks the filter emitted, in order
     wfd     |-> "none",     \* the write stream's descriptor: none, opening, open
     pos     |-> 0,          \* the file position of that descriptor
     wq      |-> <<>>,       \* texts handed to the write stream, not yet written
     fin     |-> FALSE]      \* 'finish' was emitted

\* the text a stream delivered: its chunks one after the other
RECURSIVE Flatten(_)
Flatten(chunks) == IF chunks = <<>> THEN <<>> ELSE Head(chunks) \o Flatten(Tail(chunks))

\* no analyze() has run on the instance before the current one
NoRun == [target |-> <<>>, P |-> "none", text |-> <<>>, store |-> EmptyObj]

\* function Analyzer(opts)
Init ==
    /\ target \in Targets
    /\ keywordsList \in KeywordSources
    /\ optKeyName \in KeyNames
    /\ keyName = keyNameOf(optKeyName)
    /\ ignoreCase \in BOOLEAN
    /\ keywords = Arr(<<>>)
    /\ resultsMap = EmptyObj
    /\ analyzeP = "none"
    /\ phase = "idle"
    /\ lstatP = "none"
    /\ kwP = [st |-> "none", v |-> UndefinedV]
    /\ scans = <<>>
    /\ outExists = FALSE
    /\ outFile = <<>>
    /\ outOK \in BOOLEAN
    /\ crashed = FALSE
    /\ reads = 0
    /\ run = 0
    /\ lastRun = NoRun

(***************************************************************************)
(* getKeywords.                                                            *)
(***************************************************************************)
\* getKeywords() without the check for a missing list: the list is read
\* as a file whatever it is
getKeywordsNoCheck(kl) ==
    IF kl.kind = "array" THEN [st |-> "ok", v |-> Arr(kl.arr), read |-> 0]
    ELSE [st |-> "pending", v |-> UndefinedV, read |-> 1]

\* getKeywords(), up to its return: rejected at once without a list,
\* resolved at once with an array literal, else pending on fs.readFile
\* (read: the number of fs.readFile calls it made)
getKeywords(kl) ==
    IF kl.kind = "none" THEN [st |-> "err", v |-> UndefinedV, read |-> 0]
    ELSE IF kl.kind = "array" THEN [st |-> "ok", v |-> Arr(kl.arr), read |-> 0]
    ELSE [st |-> "pending", v |-> UndefinedV, read |-> 1]

\* the callback of fs.readFileAsync in getKeywords
getKeywordsRead(kl, key) ==
    LET data == readFile(kl.path) IN
    IF data.err THEN [st |-> "err", v |-> UndefinedV]
    ELSE IF data.kind = "empty" THEN [st |-> "err", v |-> UndefinedV]
    ELSE LET r == parseKeywords(data, key)
         IN  IF r.err THEN [st |-> "err", v |-> UndefinedV]
             ELSE [st |-> "ok", v |-> r.v]

(***************************************************************************)
(* analyze.                                                                *)
(***************************************************************************)
\* no I/O of an earlier run is outstanding
ScanBusy(s) ==
    \/ s.pc \in {"mkdirp", "open", "then"}
    \/ s.wfd = "opening"
    \/ s.search = "running"
    \/ s.wq # <<>>
    \/ s.search = "end" /\ ~s.fin

Quiet ==
    /\ lstatP # "pending"
    /\ kwP.st # "pending"
    /\ phase # "readdir"
    /\ \A i \in DOMAIN scans : ~ScanBusy(scans[i])

\* analyze(), up to its return: lstat and getKeywords are started
Analyze ==
    /\ ~crashed
    /\ analyzeP = "none"
    /\ run' = run + 1
    /\ analyzeP' = "pending"
    /\ phase' = "setup"
    /\ lstatP' = "pending"
    /\ kwP' = [st |-> getKeywords(keywordsList).st, v |-> getKeywords(keywordsList).v]
    /\ reads' = reads + getKeywords(keywordsList).read
    /\ UNCHANGED <<target, config, lastRun, keywords, resultsMap, scans, outExists,
                   outFile, crashed>>

\* a caller that reuses the instance: analyzer.target = t; analyzer.analyze()
\* once the earlier run has settled and gone quiet
Reanalyze(t) ==
    /\ ~crashed
    /\ run < MaxRuns
    /\ analyzeP \in {"resolved", "rejected"}
    /\ Quiet
    /\ target' = t
    /\ run' = run + 1
    /\ analyzeP' = "pending"
    /\ phase' = "setup"
    /\ lstatP' = "pending"
    /\ kwP' = [st |-> getKeywords(keywordsList).st, v |-> getKeywords(keywordsList).v]
    /\ reads' = reads + getKeywords(keywordsList).read
    /\ scans' = <<>>
    /\ lastRun' = [target |-> target,
                   P      |-> analyzeP,
                   text   |-> [i \in DOMAIN scans |-> Flatten(scans[i].emitted)],
                   store  |-> resultsMap]
    /\ UNCHANGED <<config, keywords, resultsMap, outExists, outFile, crashed>>

\* fs.lstatAsync(target) settles
LstatDone ==
    /\ ~crashed
    /\ lstatP = "pending"
    /\ lstatP' = IF lstat(target) = "ENOENT" THEN "err" ELSE "ok"
    /\ UNCHANGED <<target, config, lastRun, keywords, resultsMap, analyzeP, phase, kwP,
                   scans, outExists, outFile, crashed, reads, run>>

\* fs.readFileAsync(keywordsList) settles
ReadFileDone ==
    /\ ~crashed
    /\ kwP.st = "pending"
    /\ kwP' = getKeywordsRead(keywordsList, keyName)
    /\ UNCHANGED <<target, config, lastRun, keywords, resultsMap, analyzeP, phase, lstatP,
                   scans, outExists, outFile, crashed, reads, run>>

\* Promise.all(setup) rejects: lstat or getKeywords failed
SetupReject ==
    /\ ~crashed
    /\ phase = "setup"
    /\ lstatP = "err" \/ kwP.st = "err"
    /\ analyzeP' = "rejected"
    /\ phase' = "done"
    /\ UNCHANGED <<target, config, lastRun, keywords, resultsMap, lstatP, kwP, scans,
                   outExists, outFile, crashed, reads, run>>

\* a then() that runs although lstat failed: what is no directory and no
\* other kind of entry is scanned as a file
SetupThenAnyStat ==
    /\ ~crashed
    /\ phase = "setup"
    /\ lstatP \in {"ok", "err"} /\ kwP.st = "ok"
    /\ keywords' = kwP.v
    /\ CASE lstat(target) = "dir" ->
              /\ scans' = scans
              /\ phase' = "readdir"
              /\ analyzeP' = analyzeP
         [] lstat(target) = "other" ->
              /\ scans' = scans
              /\ phase' = "done"
              /\ analyzeP' = "resolved"
         [] OTHER ->
              /\ scans' = <<NewScan(target)>>
              /\ phase' = "grepFile"
              /\ analyzeP' = analyzeP
    /\ UNCHANGED <<target, config, lastRun, resultsMap, lstatP, kwP, outExists, outFile,
                   crashed, reads, run>>

\* the first then() of analyze: both setup promises resolved
SetupThen ==
    /\ ~crashed
    /\ phase = "setup"
    /\ lstatP = "ok" /\ kwP.st = "ok"
    /\ keywords' = kwP.v
    /\ CASE lstat(target) = "file" ->
              /\ scans' = <<NewScan(target)>>
              /\ phase' = "grepFile"
              /\ analyzeP' = analyzeP
         [] lstat(target) = "dir" ->
              /\ scans' = scans
              /\ phase' = "readdir"
              /\ analyzeP' = analyzeP
         [] OTHER ->
              /\ scans' = scans
              /\ phase' = "done"
              /\ analyzeP' = "resolved"
    /\ UNCHANGED <<target, config, lastRun, resultsMap, lstatP, kwP, outExists, outFile,
                   crashed, reads, run>>

\* a grepDir that scans the entries under their bare names, without the
\* directory in front
ReaddirDoneBareNames ==
    /\ ~crashed
    /\ phase = "readdir"
    /\ LET r == readdir(target) IN
       IF r.err
       THEN /\ analyzeP' = "rejected"
            /\ phase' = "done"
            /\ scans' = scans
       ELSE /\ scans' = [i \in DOMAIN r.files |-> NewScan(r.files[i])]
            /\ phase' = "grepDir"
            /\ analyzeP' = analyzeP
    /\ UNCHANGED <<target, config, lastRun, keywords, resultsMap, lstatP, kwP, outExists,
                   outFile, crashed, reads, run>>

\* grepDir: fs.readdirAsync(target) settles; every entry is scanned
ReaddirDone ==
    /\ ~crashed
    /\ phase = "readdir"
    /\ LET r == readdir(target) IN
       IF r.err
       THEN /\ analyzeP' = "rejected"
            /\ phase' = "done"
            /\ scans' = scans
       ELSE /\ scans' = [i \in DOMAIN r.files |->
                             NewScan(target \o <<"/">> \o r.files[i])]
            /\ phase' = "grepDir"
            /\ analyzeP' = analyzeP
    /\ UNCHANGED <<target, config, lastRun, keywords, resultsMap, lstatP, kwP, outExists,
                   outFile, crashed, reads, run>>

\* a join that does not wait for all scans: analyze resolves as soon as one
\* of the scans has resolved
AnalyzeResolveAny ==
    /\ ~crashed
    /\ phase \in {"grepFile", "grepDir"}
    /\ \E i \in DOMAIN scans : scans[i].P = "resolved"
    /\ analyzeP' = "resolved"
    /\ phase' = "done"
    /\ UNCHANGED <<target, config, lastRun, keywords, resultsMap, lstatP, kwP, scans,
                   outExists, outFile, crashed, reads, run>>

\* the promise of grepFile, or Promise.all(grepped), resolved: analyze
\* resolves with the results store
AnalyzeResolve ==
    /\ ~crashed
    /\ phase \in {"grepFile", "grepDir"}
    /\ \A i \in DOMAIN scans : scans[i].P = "resolved"
    /\ analyzeP' = "resolved"
    /\ phase' = "done"
    /\ UNCHANGED <<target, config, lastRun, keywords, resultsMap, lstatP, kwP, scans,
                   outExists, outFile, crashed, reads, run>>

\* a join that fails only when every scan failed
AnalyzeRejectAll ==
    /\ ~crashed
    /\ phase \in {"grepFile", "grepDir"}
    /\ scans # <<>>
    /\ \A i \in DOMAIN scans : scans[i].P = "rejected"
    /\ analyzeP' = "rejected"
    /\ phase' = "done"
    /\ UNCHANGED <<target, config, lastRun, keywords, resultsMap, lstatP, kwP, scans,
                   outExists, outFile, crashed, reads, run>>

\* the promise of grepFile, or of one of the grepped, rejected
AnalyzeReject ==
    /\ ~crashed
    /\ phase \in {"grepFile", "grepDir"}
    /\ \E i \in DOMAIN scans : scans[i].P = "rejected"
    /\ analyzeP' = "rejected"
    /\ phase' = "done"
    /\ UNCHANGED <<target, config, lastRun, keywords, resultsMap, lstatP, kwP, scans,
                   outExists, outFile, crashed, reads, run>>

(***************************************************************************)
(* grepFile: prepOutputPath, then the pipeline                             *)
(*   search -> mapper -> stringify -> writable.                            *)
(***************************************************************************)
\* the byte that fills a hole left by writing beyond the end of a file
Hole == "NUL"

\* fs.write of `data` at position `pos` of a file holding `text`
WriteAt(text, pos, data) ==
    LET padded == IF Len(text) < pos
                  THEN text \o [k \in 1..(pos - Len(text)) |-> Hole]
                  ELSE text
    IN  SubSeq(padded, 1, pos) \o data \o
        SubSeq(padded, pos + Len(data) + 1, Len(padded))

\* prepOutputPath: mkdirp(dirName) settles; a failure is logged by the catch
\* of prepOutputPath, whose promise then resolves all the same
PrepMkdirp(i) ==
    /\ ~crashed
    /\ i \in DOMAIN scans
    /\ scans[i].pc = "mkdirp"
    /\ scans' = [scans EXCEPT ![i].pc = IF outOK THEN "open" ELSE "then"]
    /\ UNCHANGED <<target, config, lastRun, keywords, resultsMap, analyzeP, phase, lstatP,
                   kwP, outExists, outFile, crashed, reads, run>>

\* prepOutputPath: fs.openAsync(outputPath, 'w+') creates or truncates
PrepOpen(i) ==
    /\ ~crashed
    /\ i \in DOMAIN scans
    /\ scans[i].pc = "open"
    /\ outExists' = TRUE
    /\ outFile' = <<>>
    /\ scans' = [scans EXCEPT ![i].pc = "then"]
    /\ UNCHANGED <<target, config, lastRun, keywords, resultsMap, analyzeP, phase, lstatP,
                   kwP, crashed, reads, run>>

\* the flags of the filter
FlagsIgnoreCase == <<"-", "E", "i", "o">>
FlagsExact      == <<"-", "E", "o">>

\* an argument array whose pattern is joined the way join() does without
\* an argument, with a comma
grepArgsJoinDefault(ic, kws, file) ==
    <<IF ic THEN FlagsIgnoreCase ELSE FlagsExact, join(kws, <<",">>), file>>

\* [flags, self.keywords.join('|'), file]
grepArgs(ic, kws, file) ==
    <<IF ic THEN FlagsIgnoreCase ELSE FlagsExact, join(kws, <<"|">>), file>>

\* the then() of grepFile: createWriteStream, keywords.join('|'), grep(..)
\* and the pipes.  An exception (keywords is no array, or the filter cannot
\* be started) is logged by the catch of grepFile: the promise stays pending.
GrepThen(i, started) ==
    /\ ~crashed
    /\ i \in DOMAIN scans
    /\ scans[i].pc = "then"
    /\ scans' = [scans EXCEPT
                   ![i].wfd = "opening",
                   ![i].args = IF isArray(keywords)
                               THEN grepArgs(ignoreCase, keywords.items, scans[i].file)
                               ELSE <<>>,
                   ![i].pc = IF isArray(keywords) /\ started THEN "piped" ELSE "threw",
                   ![i].search = IF isArray(keywords) /\ started THEN "running" ELSE "none"]
    /\ UNCHANGED <<target, config, lastRun, keywords, resultsMap, analyzeP, phase, lstatP,
                   kwP, outExists, outFile, crashed, reads, run>>

\* the write stream's fs.open(outputPath, 'w') settles: it creates or
\* truncates the file; its failure is an 'error' event nobody listens to
WriteOpen(i) ==
    /\ ~crashed
    /\ i \in DOMAIN scans
    /\ scans[i].wfd = "opening"
    /\ IF outOK
       THEN /\ outExists' = TRUE
            /\ outFile' = <<>>
            /\ scans' = [scans EXCEPT ![i].wfd = "open", ![i].pos = 0]
            /\ crashed' = crashed
       ELSE /\ crashed' = TRUE
            /\ UNCHANGED <<outExists, outFile, scans>>
    /\ UNCHANGED <<target, config, lastRun, keywords, resultsMap, analyzeP, phase, lstatP,
                   kwP, reads, run>>

\* the filter emits a chunk: mapper._transform stores the chunk's map and
\* pushes the results store, stringifier._transform serializes it and the
\* text is handed to the write stream
Emit(i, data) ==
    /\ ~crashed
    /\ i \in DOMAIN scans
    /\ scans[i].search = "running"
    /\ Len(scans[i].emitted) < MaxChunks
    /\ resultsMap' = mapperTransform(resultsMap, data, scans[i].file,
                                     keywords.items, ignoreCase)
    /\ scans' = [scans EXCEPT
                   ![i].emitted = Append(@, data),
                   ![i].wq = Append(@, stringify(resultsMap'))]
    /\ UNCHANGED <<target, config, lastRun, keywords, analyzeP, phase, lstatP, kwP,
                   outExists, outFile, crashed, reads, run>>

\* the filter's stream ends
FilterEnd(i) ==
    /\ ~crashed
    /\ i \in DOMAIN scans
    /\ scans[i].search = "running"
    /\ scans' = [scans EXCEPT ![i].search = "end"]
    /\ UNCHANGED <<target, config, lastRun, keywords, resultsMap, analyzeP, phase, lstatP,
                   kwP, outExists, outFile, crashed, reads, run>>

\* search.on('error'): the promise of grepFile is rejected
FilterError(i) ==
    /\ ~crashed
    /\ i \in DOMAIN scans
    /\ scans[i].search = "running"
    /\ scans' = [scans EXCEPT ![i].search = "error", ![i].P = "rejected"]
    /\ UNCHANGED <<target, config, lastRun, keywords, resultsMap, analyzeP, phase, lstatP,
                   kwP, outExists, outFile, crashed, reads, run>>

\* the write stream writes its next text at the position of its descriptor
WriteLand(i) ==
    /\ ~crashed
    /\ i \in DOMAIN scans
    /\ scans[i].wfd = "open"
    /\ scans[i].wq # <<>>
    /\ outFile' = WriteAt(outFile, scans[i].pos, Head(scans[i].wq))
    /\ scans' = [scans EXCEPT ![i].pos = @ + Len(Head(scans[i].wq)),
                              ![i].wq = Tail(@)]
    /\ UNCHANGED <<target, config, lastRun, keywords, resultsMap, analyzeP, phase, lstatP,
                   kwP, outExists, crashed, reads, run>>

\* a write stream that emits 'finish' only after it was given something to
\* write
FinishAfterData(i) ==
    /\ ~crashed
    /\ i \in DOMAIN scans
    /\ scans[i].search = "end"
    /\ scans[i].emitted # <<>>
    /\ scans[i].wq = <<>>
    /\ ~scans[i].fin
    /\ scans' = [scans EXCEPT ![i].fin = TRUE, ![i].P = "resolved"]
    /\ UNCHANGED <<target, config, lastRun, keywords, resultsMap, analyzeP, phase, lstatP,
                   kwP, outExists, outFile, crashed, reads, run>>

\* writable.on('finish'): everything handed to the write stream after the
\* filter's stream ended is written; the promise of grepFile is resolved
Finish(i) ==
    /\ ~crashed
    /\ i \in DOMAIN scans
    /\ scans[i].search = "end"
    /\ scans[i].wq = <<>>
    /\ ~scans[i].fin
    /\ scans' = [scans EXCEPT ![i].fin = TRUE, ![i].P = "resolved"]
    /\ UNCHANGED <<target, config, lastRun, keywords, resultsMap, analyzeP, phase, lstatP,
                   kwP, outExists, outFile, crashed, reads, run>>

\* the steps of the grepFile call i, the filter emitting chunks of C
ScanStep(i, C) ==
    \/ PrepMkdirp(i)
    \/ PrepOpen(i)
    \/ \E started \in BOOLEAN : GrepThen(i, started)
    \/ WriteOpen(i)
    \/ \E data \in C : Emit(i, data)
    \/ FilterEnd(i)
    \/ FilterError(i)
    \/ WriteLand(i)
    \/ Finish(i)

\* the steps of a run of analyze()
AnalyzeStep ==
    \/ LstatDone
    \/ ReadFileDone
    \/ SetupReject
    \/ SetupThen
    \/ ReaddirDone
    \/ AnalyzeResolve
    \/ AnalyzeReject

(***************************************************************************)
(* Spec: one analyze() on a fresh Analyzer, for every target, keyword      *)
(* source and case mode; the scans of a directory run concurrently.        *)
(***************************************************************************)
RunChunks == {foo \o <<NL>>}

Next ==
    \/ Analyze
    \/ AnalyzeStep
    \/ \E i \in DOMAIN scans : ScanStep(i, RunChunks)

Spec == Init /\ [][Next]_vars

(***************************************************************************)
(* SpecScan: one grepFile(file) on an Analyzer whose keywords were set by  *)
(* the caller (analyzer.keywords = [..]; analyzer.grepFile(file)), for     *)
(* every keyword set, case mode and sequence of chunks.                    *)
(***************************************************************************)
KeywordSets == {<<foo, bar>>, <<FOO, bar>>}

InitScan ==
    /\ target = FileA
    /\ keywordsList = NoList
    /\ optKeyName = ""
    /\ keyName = keyNameOf(optKeyName)
    /\ ignoreCase \in BOOLEAN
    /\ keywords \in {Arr(k) : k \in KeywordSets}
    /\ resultsMap = EmptyObj
    /\ analyzeP = "none"
    /\ phase = "idle"
    /\ lstatP = "none"
    /\ kwP = [st |-> "none", v |-> UndefinedV]
    /\ scans = <<NewScan(target)>>
    /\ outExists = FALSE
    /\ outFile = <<>>
    /\ outOK \in BOOLEAN
    /\ crashed = FALSE
    /\ reads = 0
    /\ run = 0
    /\ lastRun = NoRun

NextScan == ScanStep(1, Chunks)

SpecScan == InitScan /\ [][NextScan]_vars

(***************************************************************************)
(* SpecScanFair: SpecScan on an event loop that runs every callback that   *)
(* is due: the settling of mkdirp and of the two fs.open calls, the then()  *)
(* of grepFile, the writes of the write stream and its 'finish'.  Nothing   *)
(* obliges the filter to emit, to end or to fail.                          *)
(***************************************************************************)
FairScan(i) ==
    /\ WF_vars(PrepMkdirp(i))
    /\ WF_vars(PrepOpen(i))
    /\ WF_vars(\E started \in BOOLEAN : GrepThen(i, started))
    /\ WF_vars(WriteOpen(i))
    /\ WF_vars(WriteLand(i))
    /\ WF_vars(Finish(i))

SpecScanFair == SpecScan /\ FairScan(1)

(***************************************************************************)
(* SpecReuse: an Analyzer instance that is used for several analyses, the  *)
(* caller changing the target between them.                                *)
(***************************************************************************)
ReuseTargets == {FileA, FileB}

InitReuse ==
    /\ Init
    /\ target \in {DirD, FileA, FileB, Missing}
    /\ keywordsList \in {ListOf(<<foo, bar>>), ListFile("k.json")}
    /\ optKeyName = ""
    /\ ignoreCase = FALSE
    /\ outOK = TRUE

NextReuse ==
    \/ Next
    \/ \E t \in ReuseTargets : Reanalyze(t)

SpecReuse == InitReuse /\ [][NextReuse]_vars

(***************************************************************************)
(* SpecTwice: analyze() is called again on the same instance with nothing  *)
(* changed: the same target, keyword set and case mode.  The filter may    *)
(* deliver its output in one chunk or in several.                          *)
(***************************************************************************)
TwiceChunks == {foo \o <<NL>>, foo \o <<NL>> \o foo \o <<NL>>}

InitTwice ==
    /\ Init
    /\ target \in {FileA, DirU, Missing}
    /\ keywordsList \in {ListOf(<<foo, bar>>), ListFile("k.json")}
    /\ optKeyName = ""
    /\ ignoreCase \in BOOLEAN
    /\ outOK = TRUE

NextTwice ==
    \/ Analyze
    \/ AnalyzeStep
    \/ \E i \in DOMAIN scans : ScanStep(i, TwiceChunks)
    \/ Reanalyze(target)

SpecTwice == InitTwice /\ [][NextTwice]_vars

(***************************************************************************)
(* SpecDir: analyze() of directories whose entries collide in their base   *)
(* name or are directories themselves.  What the filter finds depends on   *)
(* the file it is run on.                                                  *)
(***************************************************************************)
\* the chunks the filter may emit for a file: lines "bar" for a.m, lines
\* "foo" for the other files, nothing for a directory
FileChunks(file) ==
    IF lstat(file) = "dir" THEN {}
    ELSE IF file = FileSM THEN {bar \o <<NL>>}
    ELSE {foo \o <<NL>>}

InitDir ==
    /\ target \in {DirS, DirN, DirU, Missing}
    /\ keywordsList \in {ListOf(<<foo, bar>>), ListFile("k.json")}
    /\ optKeyName = ""
    /\ keyName = keyNameOf(optKeyName)
    /\ ignoreCase = FALSE
    /\ keywords = Arr(<<>>)
    /\ resultsMap = EmptyObj
    /\ analyzeP = "none"
    /\ phase = "idle"
    /\ lstatP = "none"
    /\ kwP = [st |-> "none", v |-> UndefinedV]
    /\ scans = <<>>
    /\ outExists = FALSE
    /\ outFile = <<>>
    /\ outOK = TRUE
    /\ crashed = FALSE
    /\ reads = 0
    /\ run = 0
    /\ lastRun = NoRun

NextDir ==
    \/ Analyze
    \/ AnalyzeStep
    \/ \E i \in DOMAIN scans : ScanStep(i, FileChunks(scans[i].file))

SpecDir == InitDir /\ [][NextDir]_vars

(***************************************************************************)
(* Properties.                                                             *)
(***************************************************************************)
\* the line resolves to keyword k in the given case mode
Resolves(line, k, ic) ==
    IF ic THEN toUpperCase(line) = toUpperCase(k) ELSE line = k

\* number of non-empty lines of the text that resolve to k
Occurrences(text, k, ic) ==
    LET lines == split(text, NL)
    IN  Cardinality({j \in DOMAIN lines : lines[j] # <<>> /\ Resolves(lines[j], k, ic)})

IsCount(v) == v \in Nat

\* C1: once a scan in which the filter emitted something has finished, the
\* count stored under the file's base name for each keyword k is the number
\* of non-empty lines, among all lines emitted during the scan however they
\* were split over chunks, that resolve to k.
C1_CountsAllEmittedLines ==
    \A i \in DOMAIN scans :
        (scans[i].fin /\ scans[i].emitted # <<>>) =>
            LET base == parsePathName(scans[i].file)
                text == Flatten(scans[i].emitted)
            IN  /\ Has(resultsMap, base)
                /\ \A k \in Range(keywords.items) :
                      /\ Has(Get(resultsMap, base), k)
                      /\ Get(Get(resultsMap, base), k) = Occurrences(text, k, ignoreCase)

\* C2: every frequency map of the results store has exactly the configured
\* keywords as its keys, and every value is a non-negative integer.
C2_MapHasExactlyKeywords ==
    \A f \in KeySet(resultsMap) :
        LET map == Get(resultsMap, f)
        IN  /\ KeySet(map) = Range(keywords.items)
            /\ \A k \in KeySet(map) : IsCount(Get(map, k))

\* the text parses to a structure equal to the store
ParsesTo(text, store) ==
    /\ JSONparse(text).ok
    /\ SameObj(JSONparse(text).v, store, 1)

\* C3: when analyze of a file or of a directory has resolved (the output
\* path being usable), the content of the output file parses to a structure
\* equal to the results store.
C3_OutputMatchesResults ==
    (analyzeP = "resolved" /\ lstat(target) \in {"file", "dir"} /\ outOK) =>
        (outExists /\ ParsesTo(outFile, resultsMap))

\* C4: when analyze of a directory has resolved (the output path being
\* usable), the keys of the results store are the base names of the
\* directory's entries, one per entry.
C4_KeyPerDirectoryEntry ==
    (analyzeP = "resolved" /\ lstat(target) = "dir" /\ outOK) =>
        KeySet(resultsMap) = {parsePathName(e) : e \in Range(readdir(target).files)}

\* C5: when analyze of a single file F in which the filter found keyword
\* occurrences has resolved, the results store has a key for F's base name
\* and no other key, also on a reused instance.
C5_SingleFileKeyOnly ==
    (analyzeP = "resolved" /\ lstat(target) = "file"
        /\ \A i \in DOMAIN scans : scans[i].emitted # <<>>) =>
        KeySet(resultsMap) = {parsePathName(target)}

\* a failure happened inside the run
Failed ==
    \/ lstatP = "err"
    \/ kwP.st = "err"
    \/ kwP.st = "ok" /\ ~isArray(kwP.v) /\ lstatP = "ok" /\ lstat(target) \in {"file", "dir"}
    \/ phase = "done" /\ lstatP = "ok" /\ kwP.st = "ok" /\ lstat(target) = "dir"
          /\ readdir(target).err
    \/ \E i \in DOMAIN scans : scans[i].pc # "mkdirp" /\ ~outOK
    \/ \E i \in DOMAIN scans : scans[i].pc = "threw"
    \/ \E i \in DOMAIN scans : scans[i].search = "error"

\* C6: after a failure inside an analysis run the promise of analyze never
\* resolves, and it does not stay pending: once nothing more can happen it
\* is rejected.
C6_FailureRejects ==
    (analyzeP # "none" /\ Failed) =>
        /\ analyzeP # "resolved"
        /\ (~ENABLED Next) => analyzeP = "rejected"

\* no other scan of the run writes the same key of the results store
OnlyScanOf(i) ==
    \A j \in DOMAIN scans :
        parsePathName(scans[j].file) = parsePathName(scans[i].file) => j = i

\* C7: when analyze of a directory has resolved, every scan grepDir
\* launched has finished and resolved, none is still reading or writing, and
\* the results store holds the entry each of them wrote.
C7_ResolvesAfterAllScans ==
    (analyzeP = "resolved" /\ lstat(target) = "dir") =>
        /\ Len(scans) = Len(readdir(target).files)
        /\ \A i \in DOMAIN scans :
              /\ scans[i].fin
              /\ scans[i].P = "resolved"
              /\ scans[i].search = "end"
              /\ scans[i].wq = <<>>
              /\ scans[i].emitted # <<>> =>
                    /\ Has(resultsMap, parsePathName(scans[i].file))
                    /\ OnlyScanOf(i) =>
                          Get(resultsMap, parsePathName(scans[i].file)) =
                             chunkMap(scans[i].emitted[Len(scans[i].emitted)],
                                      keywords.items, ignoreCase)

C7_Witness ==
    /\ analyzeP = "resolved"
    /\ lstat(target) = "dir"
    /\ Len(scans) = 2
    /\ \A i \in DOMAIN scans : scans[i].emitted # <<>>

\* C8: if the filter reports an error while scanning F, the promise of
\* grepFile is rejected and the scan leaves no state for F: no entry in the
\* results store and nothing handed to or written by its write stream.
C8_FilterErrorLeavesNoState ==
    \A i \in DOMAIN scans :
        scans[i].search = "error" =>
            /\ scans[i].P = "rejected"
            /\ ~Has(resultsMap, parsePathName(scans[i].file))
            /\ scans[i].wq = <<>>
            /\ scans[i].pos = 0

\* C9: without a keyword specification getKeywords rejects without reading
\* any file, and on a keyword file without content it rejects; in both
\* cases the keyword set and the results store stay as the constructor
\* left them.
C9_MissingOrEmptyKeywordsReject ==
    /\ (analyzeP # "none" /\ keywordsList.kind = "none") =>
          /\ kwP.st = "err"
          /\ reads = 0
          /\ keywords = Arr(<<>>)
          /\ resultsMap = EmptyObj
    /\ (kwP.st \in {"ok", "err"} /\ keywordsList.kind = "path"
           /\ ~readFile(keywordsList.path).err
           /\ readFile(keywordsList.path).kind = "empty") =>
          /\ kwP.st = "err"
          /\ keywords = Arr(<<>>)
          /\ resultsMap = EmptyObj

C9_Witness ==
    /\ keywordsList.kind = "none"
    /\ kwP.st = "err"
    /\ analyzeP = "rejected"

\* C10: when getKeywords succeeds it resolves with the array that was
\* passed, in the same order, if keywordsList is an array; otherwise with
\* the value stored under the configured key name (by default "keywords")
\* of the parsed keyword file.
C10_ResolvedKeywords ==
    kwP.st = "ok" =>
        IF keywordsList.kind = "array"
        THEN kwP.v.tag = "array" /\ kwP.v.items = keywordsList.arr
        ELSE LET obj == readFile(keywordsList.path).obj
                 key == IF optKeyName = "" THEN "keywords" ELSE optKeyName
             IN  kwP.v = IF Has(obj, key) THEN Get(obj, key) ELSE UndefinedV

C10_Witness ==
    /\ kwP.st = "ok"
    /\ keywordsList.kind = "path"
    /\ optKeyName = "words"
    /\ kwP.v = Arr(<<FOO>>)

\* a scan of the run has used the keyword set: the then() of grepFile ran
UsesKeywords(s) == s.pc \in {"piped", "threw"}

\* C11: whenever keyword resolution succeeded and the run went on to its
\* scans, the keyword set the scans use is a non-empty array of strings, and
\* it is still the value getKeywords resolved with.
C11_KeywordsNonEmptyArray ==
    (kwP.st = "ok" /\ \E i \in DOMAIN scans : UsesKeywords(scans[i])) =>
        /\ isArray(keywords)
        /\ keywords.items # <<>>
        /\ keywords = kwP.v

\* C12: when the target path does not exist, lstat fails and analyze
\* rejects (it never resolves); the run starts no file scan, so the line
\* filter is never invoked, it leaves the results store as the constructor
\* made it, and the output file is neither created nor written.
C12_MissingTargetNoEffect ==
    (analyzeP # "none" /\ lstat(target) = "ENOENT") =>
        /\ analyzeP # "resolved"
        /\ lstatP # "ok"
        /\ lstatP = "err" => (analyzeP = "rejected" \/ ENABLED SetupReject)
        /\ scans = <<>>
        /\ resultsMap = EmptyObj
        /\ ~outExists
        /\ outFile = <<>>

C12_Witness ==
    /\ target = Missing
    /\ lstatP = "err"
    /\ kwP.st = "ok"
    /\ analyzeP = "rejected"

\* C13: in the analysis of a directory, once the promise of at least one
\* per-entry grepFile is rejected, analyze never resolves, whatever the
\* sibling scans do and in whatever order they complete: its promise is
\* rejected, or its rejection is the next thing Promise.all(grepped) does.
C13_DirFailsIfAnyScanFails ==
    (lstat(target) = "dir" /\ \E i \in DOMAIN scans : scans[i].P = "rejected") =>
        /\ analyzeP # "resolved"
        /\ ~crashed => (analyzeP = "rejected" \/ ENABLED AnalyzeReject)

C13_Witness ==
    /\ lstat(target) = "dir"
    /\ Len(scans) = 2
    /\ scans[1].P = "resolved"
    /\ scans[2].P = "rejected"
    /\ analyzeP = "rejected"

\* C14: for every results store reachable by scanning, the text the
\* stringifier produces for it parses back to a structure equal to the
\* store: the same file keys, the same keyword keys and the same counts.
C14_StringifyRoundTrip ==
    ParsesTo(stringify(resultsMap), resultsMap)

\* the run that has just resolved repeats the previous run of the instance:
\* the same target, and the filter emitted the same lines for every file
RepeatsLastRun ==
    /\ run >= 2
    /\ analyzeP = "resolved"
    /\ lastRun.P = "resolved"
    /\ lastRun.target = target
    /\ DOMAIN lastRun.text = DOMAIN scans
    /\ \A i \in DOMAIN scans : Flatten(scans[i].emitted) = lastRun.text[i]

\* C15: when analyze has run twice with the same target, keyword set and
\* case mode, the filter emitting the same lines both times (in whatever
\* chunks) and the first run being over before the second starts, every
\* file has the same frequency map after the second run as after the first.
C15_SameMapWhenRepeated ==
    RepeatsLastRun =>
        \A i \in DOMAIN scans :
            LET base == parsePathName(scans[i].file)
            IN  /\ Has(resultsMap, base) <=> Has(lastRun.store, base)
                /\ Has(resultsMap, base) =>
                      Get(resultsMap, base) = Get(lastRun.store, base)

\* C16: in every grepFile call, as long as prepOutputPath has not completed
\* the write stream is not created and the filter is not invoked; and once
\* either of them exists, the output file exists.
C16_PrepBeforeScan ==
    \A i \in DOMAIN scans :
        /\ scans[i].pc \in {"mkdirp", "open"} =>
              /\ scans[i].wfd = "none"
              /\ scans[i].search = "none"
              /\ scans[i].emitted = <<>>
        /\ (scans[i].wfd # "none" \/ scans[i].search # "none") => outExists

\* words and maps getKey is called with: the words of the tests and of the
\* chunks, maps without a match, with one and with several
GetKeyWords == {foo, FOO, bar, <<"b", "a">>, <<"h", "e", "l", "l", "o">>}

GetKeyMaps ==
    {EmptyObj,
     zeroMap(<<FOO, bar>>, EmptyObj),
     zeroMap(<<foo, bar>>, EmptyObj),
     zeroMap(<<bar, foo, FOO>>, EmptyObj),
     zeroMap(<<FOO, foo>>, EmptyObj)}

\* the lines the filter emitted so far
EmittedWords ==
    UNION {Range(split(Flatten(scans[i].emitted), NL)) : i \in DOMAIN scans}

\* the frequency maps of the results store
StoredMaps == {Get(resultsMap, f) : f \in KeySet(resultsMap)}

FullMap(i) ==
    [keys |-> keywords.items,
     val  |-> [n \in DOMAIN keywords.items |->
                  Occurrences(Flatten(scans[i].emitted), keywords.items[n], ignoreCase)]]

\* scans i and j are of two files with the same extension-stripped name
Collide(i, j) ==
    /\ i # j
    /\ parsePathName(scans[i].file) = parsePathName(scans[j].file)

\* C18: when analyze has resolved and two scanned files in which the filter
\* found something share their base name, the results store has exactly
\* one entry for that name, and that entry is the complete frequency map of
\* one of the two files.
C18_CollisionKeepsOneWholeMap ==
    analyzeP = "resolved" =>
        \A i, j \in DOMAIN scans :
            (Collide(i, j) /\ scans[i].emitted # <<>> /\ scans[j].emitted # <<>>) =>
                LET base == parsePathName(scans[i].file)
                IN  /\ Cardinality({n \in DOMAIN resultsMap.keys :
                                       resultsMap.keys[n] = base}) = 1
                    /\ \/ SameObj(Get(resultsMap, base), FullMap(i), 0)
                       \/ SameObj(Get(resultsMap, base), FullMap(j), 0)

\* the path grepDir scans for entry n of the target directory
EntryPath(n) == target \o <<"/">> \o readdir(target).files[n]

\* C19: in the analysis of a directory no scan exists before the directory
\* is listed; once it is listed there is exactly one scan per immediate
\* entry, with path target + '/' + entry and in the order of the entries,
\* all of them started together and none for a file inside a subdirectory;
\* if the directory cannot be listed analyze is rejected and there is no
\* scan.
C19_OneScanPerEntry ==
    (lstat(target) = "dir" /\ analyzeP # "none") =>
        IF phase \in {"grepDir", "done"} /\ lstatP = "ok" /\ kwP.st = "ok"
        THEN IF readdir(target).err
             THEN scans = <<>> /\ analyzeP = "rejected"
             ELSE /\ DOMAIN scans = DOMAIN readdir(target).files
                  /\ \A n \in DOMAIN scans : scans[n].file = EntryPath(n)
                  /\ \A n \in DOMAIN scans : lstat(scans[n].file) = "dir" =>
                         \A m \in DOMAIN scans :
                            \A e \in Range(readdir(scans[n].file).files) :
                               scans[m].file # scans[n].file \o <<"/">> \o e
        ELSE scans = <<>>

C19_Witness ==
    /\ target = DirN
    /\ phase = "grepDir"
    /\ Len(scans) = 2
    /\ scans[1].file = FileNA
    /\ scans[2].file = SubDir
    /\ scans[1].pc = "mkdirp"
    /\ scans[2].pc = "mkdirp"

\* scan i, and no other, mapped a chunk in this step
Mapped(i) ==
    /\ i \in DOMAIN scans'
    /\ Len(scans'[i].emitted) = Len(scans[i].emitted) + 1
    /\ \A j \in DOMAIN scans : j # i => (j \in DOMAIN scans' /\ scans'[j] = scans[j])

\* C20: in every step, under every interleaving of concurrent scans, no key
\* is removed from the results store, and an entry is added or changed only
\* by a scan that maps a chunk in that step, and only the entry under the
\* base name of that scan's file.
C20_ScanWritesOwnEntryOnly ==
    [][ /\ \A f \in KeySet(resultsMap) : Has(resultsMap', f)
        /\ \A f \in KeySet(resultsMap') :
              (~Has(resultsMap, f) \/ Get(resultsMap', f) # Get(resultsMap, f)) =>
                  \E i \in DOMAIN scans :
                      Mapped(i) /\ parsePathName(scans[i].file) = f
      ]_vars

C20_Witness ==
    /\ lstat(target) = "dir"
    /\ Len(scans) = 2
    /\ \A i \in DOMAIN scans : scans[i].emitted # <<>>
    /\ KeySet(resultsMap) = {parsePathName(scans[i].file) : i \in DOMAIN scans}
    /\ Cardinality(KeySet(resultsMap)) = 2

\* C21: when the output path can be prepared and the filter's stream has
\* ended without an error, the promise of grepFile is eventually resolved,
\* whether the filter emitted nothing, one chunk or several.
C21_ScanTerminates ==
    (outOK /\ scans[1].search = "end") ~> (scans[1].P = "resolved")

C21_Witness ==
    /\ outOK
    /\ scans[1].search = "end"
    /\ Len(scans[1].emitted) = MaxChunks
    /\ scans[1].P = "resolved"

\* C22: when the target is a symbolic link (it exists, and lstat says it is
\* neither a file nor a directory) and the keywords resolve, analyze does
\* not reject: it resolves as soon as lstat and getKeywords have settled;
\* nothing is scanned, so the filter is never invoked, the results store
\* stays as the constructor made it and no output is created or written.
C22_OtherTargetNotScanned ==
    (target = LinkL /\ analyzeP # "none") =>
        /\ lstatP # "err"
        /\ scans = <<>>
        /\ resultsMap = EmptyObj
        /\ ~outExists
        /\ outFile = <<>>
        /\ kwP.st \in {"pending", "ok"} => analyzeP # "rejected"
        /\ (lstatP = "ok" /\ kwP.st = "ok") =>
               (analyzeP = "resolved" \/ ENABLED SetupThen)

C22_Witness ==
    /\ target = LinkL
    /\ lstatP = "ok"
    /\ kwP.st = "ok"
    /\ analyzeP = "resolved"
    /\ phase = "done"

\* C23: grep() is not called before the then() of grepFile runs, a filter
\* that runs was called, and every call got an array of exactly three
\* arguments: "-Eio" when ignoreCase is set and "-Eo" otherwise; a pattern
\* that, cut at every "|", is the sequence of the resolved keywords in their
\* order; and the path of the file of the scan.
C23_FilterArguments ==
    \A i \in DOMAIN scans :
        /\ scans[i].pc \in {"mkdirp", "open", "then"} => scans[i].args = <<>>
        /\ scans[i].search # "none" => scans[i].args # <<>>
        /\ scans[i].args # <<>> =>
              /\ Len(scans[i].args) = 3
              /\ scans[i].args[1] = IF ignoreCase THEN <<"-", "E", "i", "o">>
                                                 ELSE <<"-", "E", "o">>
              /\ IF keywords.items = <<>>
                 THEN scans[i].args[2] = <<>>
                 ELSE split(scans[i].args[2], "|") = keywords.items
              /\ scans[i].args[3] = scans[i].file

C23_Witness ==
    /\ target = DirD
    /\ ignoreCase
    /\ Len(scans) = 2
    /\ scans[2].search = "running"
    /\ scans[2].args = <<<<"-", "E", "i", "o">>,
                         <<"f", "o", "o", "|", "b", "a", "r">>,
                         FileB>>

=============================================================================
